---- MODULE Spec2Model ----
(***************************************************************************)
(* The llama JNI bridge of nova-app (app/src/main/cpp/llama_jni.cpp): the  *)
(* process-wide model store, its lock, the two generation loops and the    *)
(* lock-free flags, as a state machine of host threads calling the JNI     *)
(* entry points.                                                           *)
(*                                                                         *)
(* Text is a sequence of one-character strings.  The llama.cpp runtime is  *)
(* external: what it returns (load success, tokenizer length, decode       *)
(* status, the sampled token) is an input of the action that calls it.     *)
(* Of the runtime's own state the model keeps the fill of the context's    *)
(* key/value cache: llama_decode stores a batch in it, and fails on a      *)
(* batch for which the context window has no room left.                    *)
(* Heap and JNI string allocation are taken to succeed, except the path    *)
(* string of loadModel, whose failure the code turns into a return value.  *)
(***************************************************************************)
EXTENDS Integers, Sequences, FiniteSets, TLC

\* ------------------------------------------------------------------ bounds
MaxTokens == 2      \* largest maxTokens a host passes
MaxStops == 2       \* most stop strings in one request
MaxPrompt == 3      \* most tokens a prompt tokenizes to
\* The context window, in cells of the key/value cache: ctx_params.n_ctx,
\* which the build sets to 2048, scaled down to the requests above.
n_ctx == 2

\* --------------------------------------------------------------- constants
\* g_load_progress is kept in halves: PROGRESS_ONE stands for 1.0f.
PROGRESS_ONE == 2
\* The end-of-generation token of the vocabulary.
TOKEN_EOG == 0
\* size_t arithmetic is modular.  The modulus is 2^30 here (the checker's
\* integers are 32 bits wide); every length of the model is far below it, so
\* a wrapped difference lies above every valid index, as with 2^64.
SIZE_MOD == 2^30
npos == SIZE_MOD - 1

Threads == {"t1", "t2"}
NoThread == "none"

\* The toy vocabulary: token k (k >= 1) decodes to Vocab[k]; the first one
\* decodes to nothing.
Vocab == << <<>>, <<"a">>, <<"!">>, <<"a", "!">>, <<"!", "a", "a">> >>
Tokens == {TOKEN_EOG} \cup (1..Len(Vocab))

\* The stop strings a host may configure, and the lists of them.
StopChoices == { <<>>, <<"!">>, <<"a", "!">> }
StopLists == UNION { [1..n -> StopChoices] : n \in 0..MaxStops }
\* The stop lists of the requests made while other threads run.
FewStopLists == { <<>>, << <<"!">> >> }
\* The thread of the single-threaded host.
Main == "t1"

VARIABLES
    g_model,              \* the model handle is non-null
    g_ctx,                \* the context handle is non-null
    g_mutex,              \* the thread holding g_mutex, or NoThread
    g_is_generating,
    g_cancel_generation,
    g_load_progress,      \* in halves, 0..PROGRESS_ONE
    backend,              \* llama_backend_init without llama_backend_free
    kv,                   \* cells of g_ctx's key/value cache in use
    pc,                   \* per thread: where it is in its JNI call
    loc,                  \* per thread: the locals of its JNI call
    hist                  \* the last buffered generation, for comparison

vars == <<g_model, g_ctx, g_mutex, g_is_generating, g_cancel_generation,
          g_load_progress, backend, kv, pc, loc, hist>>

globals == <<g_model, g_ctx, g_is_generating, g_cancel_generation,
             g_load_progress, backend, kv>>

\* ------------------------------------------------------------ std::string
Min(S) == CHOOSE x \in S : \A y \in S : x <= y
Max(S) == CHOOSE x \in S : \A y \in S : x >= y

\* a - b in size_t
size_sub(a, b) == (a - b) % SIZE_MOD

\* sub occurs in s at the 0-based index p
occurs_at(s, sub, p) ==
    /\ p + Len(sub) <= Len(s)
    /\ \A k \in 1..Len(sub) : s[p + k] = sub[k]

\* std::string::find(sub, pos): the first occurrence at or after pos
string_find(s, sub, pos) ==
    LET hits == { p \in 0..Len(s) : p >= pos /\ occurs_at(s, sub, p) }
    IN  IF hits = {} THEN npos ELSE Min(hits)

\* std::string::rfind(sub): the last occurrence
string_rfind(s, sub) ==
    LET hits == { p \in 0..Len(s) : occurs_at(s, sub, p) }
    IN  IF hits = {} THEN npos ELSE Max(hits)

\* std::string::substr(0, n)
string_substr(s, n) == SubSeq(s, 1, IF n < Len(s) THEN n ELSE Len(s))

\* llama_token_to_piece: the text of a token
llama_token_to_piece(tok) == Vocab[tok]

\* llama_vocab_is_eog
llama_vocab_is_eog(tok) == tok = TOKEN_EOG

\* ------------------------------------------------------------ llama_batch
\* llama_batch_init(n, 0, 1): arrays of n entries, none written.  The entries
\* written so far are the sequences; entry idx of the code is element idx + 1.
\* writes: the indexes at which the arrays have been written.
llama_batch_init(n) ==
    [ size |-> n, n_tokens |-> 0, token |-> <<>>, pos |-> <<>>,
      n_seq_id |-> <<>>, seq_id |-> <<>>, logits |-> <<>>, writes |-> {} ]

\* Mutation of batch_add_token: the entry's index is stored as its position.
batch_add_token_pos_idx(batch, id, pos, logits) ==
    [ batch EXCEPT !.token = Append(@, id),
                   !.pos = Append(@, batch.n_tokens),
                   !.n_seq_id = Append(@, 1),
                   !.seq_id = Append(@, <<0>>),
                   !.logits = Append(@, IF logits THEN 1 ELSE 0),
                   !.writes = @ \cup {batch.n_tokens},
                   !.n_tokens = @ + 1 ]

\* batch_add_token: entry n_tokens is written and n_tokens incremented.
batch_add_token(batch, id, pos, logits) ==
    [ batch EXCEPT !.token = Append(@, id),
                   !.pos = Append(@, pos),
                   !.n_seq_id = Append(@, 1),
                   !.seq_id = Append(@, <<0>>),
                   !.logits = Append(@, IF logits THEN 1 ELSE 0),
                   !.writes = @ \cup {batch.n_tokens},
                   !.n_tokens = @ + 1 ]

\* The tokens of a prompt that tokenizes to n tokens (their ids play no part).
prompt_tokens(n) == [k \in 1..n |-> 1]

RECURSIVE add_prompt(_, _, _)
\* for (int i = 0; i < n_tokens; i++) batch_add_token(batch, tokens[i], i, false)
add_prompt(batch, tokens, i) ==
    IF i >= Len(tokens) THEN batch
    ELSE add_prompt(batch_add_token(batch, tokens[i + 1], i, FALSE), tokens, i + 1)

\* batch.logits[batch.n_tokens - 1] = true.  With no entry the index is -1:
\* the byte before the array is written and no entry of the batch changes.
set_last_logits(batch) ==
    IF batch.n_tokens >= 1
    THEN [batch EXCEPT !.logits = [@ EXCEPT ![batch.n_tokens] = 1],
                       !.writes = @ \cup {batch.n_tokens - 1}]
    ELSE [batch EXCEPT !.writes = @ \cup {batch.n_tokens - 1}]

\* The prompt batch of generate and generateStreaming.
prompt_batch(n_tokens) ==
    set_last_logits(add_prompt(llama_batch_init(n_tokens),
                               prompt_tokens(n_tokens), 0))

\* The batch of one newly sampled token at n_cur.
single_batch(new_token, n_cur) ==
    batch_add_token(llama_batch_init(1), new_token, n_cur, TRUE)

\* llama_decode can store a batch only while the context window has room
\* for its tokens after the cells in use.
llama_decode_fits(cells, batch) == cells + batch.n_tokens <= n_ctx

\* The writes to a batch that fall outside its arrays.
out_of_bounds(batch) == { w \in batch.writes : w < 0 \/ w >= batch.size }

\* What a request keeps of a batch it passed to llama_decode, and whether the
\* call succeeded.
submitted(batch, decoded) ==
    [ size |-> batch.size, writes |-> batch.writes,
      pos |-> batch.pos, n_seq_id |-> batch.n_seq_id, seq_id |-> batch.seq_id,
      logits |-> batch.logits, decoded |-> decoded ]

\* -------------------------------------------------------------- observers
isModelLoaded == g_model /\ g_ctx
getLoadProgress == g_load_progress
isGenerating == g_is_generating

\* ----------------------------------------------------------------- locals
\* why: the exit path a call took ("" while it runs).  ret: the text a
\* generation returns; ok: the jboolean loadModel returns.  sink: the
\* fragments passed to onToken, in order.  prior: isModelLoaded when the
\* call took the lock.
\* nsample, neval: tokens sampled and single-token evaluations so far.
\* early_cancel: cancelGeneration ran after this call was invoked and before
\* the poll of its first step.  seen_cancel: the per-step poll read the flag as set.
\* cancelled: cancelGeneration ran after this generation call was invoked.
\* stale: the flag this call cleared on entry was set, by a cancelGeneration
\* that ran before the call was invoked.
\* progress0: getLoadProgress when the call took the lock.  subm: the batches
\* the call passed to llama_decode, in order.  batch_init, batch_free,
\* smpl_init, smpl_free: calls of llama_batch_init, llama_batch_free,
\* llama_sampler_chain_init and llama_sampler_free so far.
InitLoc ==
    [ stop_strs |-> <<>>, maxTokens |-> 0, n_tokens |-> 0, i |-> 0,
      n_cur |-> 0, result |-> <<>>, new_token |-> 0, piece |-> <<>>,
      should_stop |-> FALSE, sink |-> <<>>, ret |-> <<>>, ok |-> FALSE,
      why |-> "",
      prior |-> FALSE, nsample |-> 0, neval |-> 0,
      early_cancel |-> FALSE, seen_cancel |-> FALSE,
      cancelled |-> FALSE, stale |-> FALSE,
      progress0 |-> 0, subm |-> <<>>, batch_init |-> 0, batch_free |-> 0,
      smpl_init |-> 0, smpl_free |-> 0 ]

\* The record of the last generate call, kept when on: its request, the
\* tokens the sampler gave it, and (once done) its text and exit path.
InitHist ==
    [ on |-> FALSE, done |-> FALSE, stop_strs |-> <<>>, maxTokens |-> 0,
      n_tokens |-> 0, toks |-> <<>>, ret |-> <<>>, why |-> "" ]

\* Where a generation call is between its invocation and the poll of its
\* first step.
BeforeFirstStep ==
    { "G_lock", "G_check", "G_begin", "G_clear", "G_tokenize", "G_prompt",
      "G_loop",
      "S_lock", "S_check", "S_begin", "S_clear", "S_tokenize", "S_prompt",
      "S_loop" }

\* Where a generation call is between its invocation and its return.
Invoked ==
    BeforeFirstStep \cup
    { "G_sample", "G_eval", "G_end", "G_ret",
      "S_sample", "S_send", "S_eval", "S_end", "S_ret" }

Init ==
    /\ g_model = FALSE
    /\ g_ctx = FALSE
    /\ g_mutex = NoThread
    /\ g_is_generating = FALSE
    /\ g_cancel_generation = FALSE
    /\ g_load_progress = 0
    /\ backend = FALSE
    /\ kv = 0
    /\ pc = [t \in Threads |-> "idle"]
    /\ loc = [t \in Threads |-> InitLoc]
    /\ hist = InitHist

\* ------------------------------------------------------------ std::mutex
\* A host thread invokes a JNI entry point: it now waits for g_mutex.
Invoke(t, entry) ==
    /\ pc[t] = "idle"
    /\ pc' = [pc EXCEPT ![t] = entry]
    /\ UNCHANGED <<hist, globals, g_mutex, loc>>

\* Mutation of lock_guard: the lock is taken without waiting for it.
lock_guard_unchecked(t, at, next) ==
    /\ pc[t] = at
    /\ g_mutex' = t
    /\ pc' = [pc EXCEPT ![t] = next]
    /\ loc' = [loc EXCEPT ![t].prior = isModelLoaded,
                          ![t].progress0 = getLoadProgress]
    /\ UNCHANGED <<hist, globals>>

\* std::lock_guard<std::mutex> lock(g_mutex): blocks until the mutex is free
lock_guard(t, at, next) ==
    /\ pc[t] = at
    /\ g_mutex = NoThread
    /\ g_mutex' = t
    /\ pc' = [pc EXCEPT ![t] = next]
    /\ loc' = [loc EXCEPT ![t].prior = isModelLoaded,
                          ![t].progress0 = getLoadProgress]
    /\ UNCHANGED <<hist, globals>>

\* The return of a call that holds the lock: the guard's destructor unlocks.
Return(t, at) ==
    /\ pc[t] = at
    /\ g_mutex' = IF g_mutex = t THEN NoThread ELSE g_mutex
    /\ pc' = [pc EXCEPT ![t] = "idle"]
    /\ loc' = [loc EXCEPT ![t] = InitLoc]
    /\ UNCHANGED <<hist, globals>>

\* ---------------------------------------------------------------- loadModel
loadModel_call(t) == Invoke(t, "L_lock")

loadModel_lock(t) == lock_guard(t, "L_lock", "L_free_ctx")

\* if (g_ctx) { llama_free(g_ctx); g_ctx = nullptr; }
loadModel_free_ctx(t) ==
    /\ pc[t] = "L_free_ctx"
    /\ g_ctx' = FALSE
    /\ kv' = 0
    /\ pc' = [pc EXCEPT ![t] = "L_free_model"]
    /\ UNCHANGED <<hist, g_model, g_mutex, g_is_generating, g_cancel_generation,
                   g_load_progress, backend, loc>>

\* if (g_model) { llama_model_free(g_model); g_model = nullptr; }
loadModel_free_model(t) ==
    /\ pc[t] = "L_free_model"
    /\ g_model' = FALSE
    /\ pc' = [pc EXCEPT ![t] = "L_path"]
    /\ UNCHANGED <<kv, hist, g_ctx, g_mutex, g_is_generating, g_cancel_generation,
                   g_load_progress, backend, loc>>

\* GetStringUTFChars; a null path returns JNI_FALSE at once.  Otherwise the
\* progress is reset and the backend initialised.
loadModel_path(t, path_ok) ==
    /\ pc[t] = "L_path"
    /\ IF path_ok
       THEN /\ g_load_progress' = 0
            /\ backend' = TRUE
            /\ pc' = [pc EXCEPT ![t] = "L_weights"]
            /\ UNCHANGED loc
       ELSE /\ loc' = [loc EXCEPT ![t].ok = FALSE, ![t].why = "path"]
            /\ pc' = [pc EXCEPT ![t] = "L_ret"]
            /\ UNCHANGED <<g_load_progress, backend>>
    /\ UNCHANGED <<kv, hist, g_model, g_ctx, g_mutex, g_is_generating,
                   g_cancel_generation>>

\* The progress callback llama_model_load_from_file calls while it reads the
\* weights, with a fraction that does not decrease.
model_load_progress(t, progress) ==
    /\ pc[t] = "L_weights"
    /\ progress > g_load_progress
    /\ g_load_progress' = progress
    /\ UNCHANGED <<kv, hist, g_model, g_ctx, g_mutex, g_is_generating,
                   g_cancel_generation, backend, pc, loc>>

\* g_model = llama_model_load_from_file(...); null: backend freed, JNI_FALSE
loadModel_weights(t, loaded) ==
    /\ pc[t] = "L_weights"
    /\ g_model' = loaded
    /\ IF loaded
       THEN /\ pc' = [pc EXCEPT ![t] = "L_ctx"]
            /\ UNCHANGED <<backend, loc>>
       ELSE /\ backend' = FALSE
            /\ loc' = [loc EXCEPT ![t].ok = FALSE, ![t].why = "weights"]
            /\ pc' = [pc EXCEPT ![t] = "L_ret"]
    /\ UNCHANGED <<kv, hist, g_ctx, g_mutex, g_is_generating, g_cancel_generation,
                   g_load_progress>>

\* g_ctx = llama_init_from_model(...); null: the model is freed, the backend
\* freed, JNI_FALSE
loadModel_context(t, created) ==
    /\ pc[t] = "L_ctx"
    /\ g_ctx' = created
    /\ IF created
       THEN /\ pc' = [pc EXCEPT ![t] = "L_done"]
            /\ UNCHANGED <<g_model, backend, loc>>
       ELSE /\ g_model' = FALSE
            /\ backend' = FALSE
            /\ loc' = [loc EXCEPT ![t].ok = FALSE, ![t].why = "context"]
            /\ pc' = [pc EXCEPT ![t] = "L_ret"]
    /\ kv' = 0
    /\ UNCHANGED <<hist, g_mutex, g_is_generating, g_cancel_generation,
                   g_load_progress>>

\* Mutation of loadModel_done: the final store of 1.0f is missing.
loadModel_done_no_store(t) ==
    /\ pc[t] = "L_done"
    /\ loc' = [loc EXCEPT ![t].ok = TRUE, ![t].why = "loaded"]
    /\ pc' = [pc EXCEPT ![t] = "L_ret"]
    /\ UNCHANGED <<kv, hist, g_model, g_ctx, g_mutex, g_is_generating,
                   g_cancel_generation, g_load_progress, backend>>

\* g_load_progress.store(1.0f); return JNI_TRUE
loadModel_done(t) ==
    /\ pc[t] = "L_done"
    /\ g_load_progress' = PROGRESS_ONE
    /\ loc' = [loc EXCEPT ![t].ok = TRUE, ![t].why = "loaded"]
    /\ pc' = [pc EXCEPT ![t] = "L_ret"]
    /\ UNCHANGED <<kv, hist, g_model, g_ctx, g_mutex, g_is_generating,
                   g_cancel_generation, backend>>

loadModel_return(t) == Return(t, "L_ret")

loadModel(t) ==
    \/ loadModel_call(t)
    \/ loadModel_lock(t)
    \/ loadModel_free_ctx(t)
    \/ loadModel_free_model(t)
    \/ \E path_ok \in BOOLEAN : loadModel_path(t, path_ok)
    \/ \E progress \in 1..PROGRESS_ONE : model_load_progress(t, progress)
    \/ \E loaded \in BOOLEAN : loadModel_weights(t, loaded)
    \/ \E created \in BOOLEAN : loadModel_context(t, created)
    \/ loadModel_done(t)
    \/ loadModel_return(t)

\* -------------------------------------------------------------- unloadModel
unloadModel_call(t) == Invoke(t, "U_lock")

unloadModel_lock(t) == lock_guard(t, "U_lock", "U_free_ctx")

\* Mutation of unloadModel_free_ctx: the model is freed first.
unloadModel_free_ctx_model_first(t) ==
    /\ pc[t] = "U_free_ctx"
    /\ g_model' = FALSE
    /\ pc' = [pc EXCEPT ![t] = "U_free_model"]
    /\ UNCHANGED <<kv, hist, g_ctx, g_mutex, g_is_generating, g_cancel_generation,
                   g_load_progress, backend, loc>>

\* if (g_ctx) { llama_free(g_ctx); g_ctx = nullptr; }
unloadModel_free_ctx(t) ==
    /\ pc[t] = "U_free_ctx"
    /\ g_ctx' = FALSE
    /\ kv' = 0
    /\ pc' = [pc EXCEPT ![t] = "U_free_model"]
    /\ UNCHANGED <<hist, g_model, g_mutex, g_is_generating, g_cancel_generation,
                   g_load_progress, backend, loc>>

unloadModel_free_model(t) ==
    /\ pc[t] = "U_free_model"
    /\ g_model' = FALSE
    /\ pc' = [pc EXCEPT ![t] = "U_finish"]
    /\ UNCHANGED <<kv, hist, g_ctx, g_mutex, g_is_generating, g_cancel_generation,
                   g_load_progress, backend, loc>>

\* Mutation of unloadModel_finish: the progress is not reset.
unloadModel_finish_no_reset(t) ==
    /\ pc[t] = "U_finish"
    /\ backend' = FALSE
    /\ loc' = [loc EXCEPT ![t].why = "unloaded"]
    /\ pc' = [pc EXCEPT ![t] = "U_ret"]
    /\ UNCHANGED <<kv, hist, g_model, g_ctx, g_mutex, g_is_generating,
                   g_cancel_generation, g_load_progress>>

\* llama_backend_free(); g_load_progress.store(0.0f)
unloadModel_finish(t) ==
    /\ pc[t] = "U_finish"
    /\ backend' = FALSE
    /\ g_load_progress' = 0
    /\ loc' = [loc EXCEPT ![t].why = "unloaded"]
    /\ pc' = [pc EXCEPT ![t] = "U_ret"]
    /\ UNCHANGED <<kv, hist, g_model, g_ctx, g_mutex, g_is_generating,
                   g_cancel_generation>>

unloadModel_return(t) == Return(t, "U_ret")

unloadModel(t) ==
    \/ unloadModel_call(t)
    \/ unloadModel_lock(t)
    \/ unloadModel_free_ctx(t)
    \/ unloadModel_free_model(t)
    \/ unloadModel_finish(t)
    \/ unloadModel_return(t)

\* --------------------------------------------------------- cancelGeneration
\* g_cancel_generation.store(true), without the lock.  The call is marked on
\* every generation call that is invoked and has not polled the flag yet.
cancelGeneration(t) ==
    /\ pc[t] = "idle"
    /\ g_cancel_generation' = TRUE
    /\ loc' = [u \in Threads |->
                IF pc[u] \in BeforeFirstStep /\ loc[u].nsample = 0
                THEN [loc[u] EXCEPT !.early_cancel = TRUE,
                                    !.cancelled = TRUE]
                ELSE IF pc[u] \in Invoked
                THEN [loc[u] EXCEPT !.cancelled = TRUE]
                ELSE loc[u]]
    /\ UNCHANGED <<kv, hist, g_model, g_ctx, g_mutex, g_is_generating, g_load_progress,
                   backend, pc>>

\* ----------------------------------------------------------------- generate
\* The stop-string test of generate: stop is looked for from index
\* length - stop.length() - 1 of result on, in size_t.
generate_stop_found(result, stop) ==
    /\ Len(result) >= Len(stop)
    /\ string_find(result, stop,
                   size_sub(size_sub(Len(result), Len(stop)), 1)) # npos

\* Mutation of generate_stop_check: a match stops without cutting result.
generate_stop_check_no_cut(result, stop_strs) ==
    [ result |-> result,
      should_stop |-> \E k \in 1..Len(stop_strs) :
                          generate_stop_found(result, stop_strs[k]) ]

\* The stop-string loop of generate over result (the piece appended): the
\* first stop string found, in the order supplied, cuts result at its last
\* occurrence.
generate_stop_check(result, stop_strs) ==
    LET found == { k \in 1..Len(stop_strs) :
                     generate_stop_found(result, stop_strs[k]) }
    IN  IF found = {}
        THEN [result |-> result, should_stop |-> FALSE]
        ELSE LET pos == string_rfind(result, stop_strs[Min(found)])
             IN  [result |-> IF pos # npos THEN string_substr(result, pos)
                             ELSE result,
                  should_stop |-> TRUE]

generate_call(t) == Invoke(t, "G_lock")

generate_lock(t) == lock_guard(t, "G_lock", "G_check")

\* if (!g_model || !g_ctx) return env->NewStringUTF("");
generate_check(t) ==
    /\ pc[t] = "G_check"
    /\ IF ~g_model \/ ~g_ctx
       THEN /\ loc' = [loc EXCEPT ![t].ret = <<>>, ![t].why = "nomodel"]
            /\ pc' = [pc EXCEPT ![t] = "G_ret"]
       ELSE /\ pc' = [pc EXCEPT ![t] = "G_begin"]
            /\ UNCHANGED loc
    /\ UNCHANGED <<hist, globals, g_mutex>>

\* g_is_generating.store(true)
generate_begin(t) ==
    /\ pc[t] = "G_begin"
    /\ g_is_generating' = TRUE
    /\ pc' = [pc EXCEPT ![t] = "G_clear"]
    /\ UNCHANGED <<kv, hist, g_model, g_ctx, g_mutex, g_cancel_generation,
                   g_load_progress, backend, loc>>

\* Mutation of generate_clear: the flag is left as it is.
generate_clear_skipped(t) ==
    /\ pc[t] = "G_clear"
    /\ loc' = [loc EXCEPT ![t].stale =
                              g_cancel_generation /\ ~loc[t].cancelled]
    /\ pc' = [pc EXCEPT ![t] = "G_tokenize"]
    /\ UNCHANGED <<kv, hist, g_model, g_ctx, g_mutex, g_is_generating,
                   g_cancel_generation, g_load_progress, backend>>

\* g_cancel_generation.store(false)
generate_clear(t) ==
    /\ pc[t] = "G_clear"
    /\ g_cancel_generation' = FALSE
    /\ loc' = [loc EXCEPT ![t].stale =
                              g_cancel_generation /\ ~loc[t].cancelled]
    /\ pc' = [pc EXCEPT ![t] = "G_tokenize"]
    /\ UNCHANGED <<kv, hist, g_model, g_ctx, g_mutex, g_is_generating,
                   g_load_progress, backend>>

\* Mutation of generate_tokenize: the sign of n_tokens is not tested.
generate_tokenize_unchecked(t, stop_strs, maxTokens, n_tokens) ==
    /\ pc[t] = "G_tokenize"
    /\ loc' = [loc EXCEPT ![t].stop_strs = stop_strs,
                          ![t].maxTokens = maxTokens,
                          ![t].n_tokens = n_tokens]
    /\ pc' = [pc EXCEPT ![t] = "G_prompt"]
    /\ UNCHANGED <<hist, globals, g_mutex>>

\* The stop strings are collected and the prompt tokenized; a negative
\* length returns "" with g_is_generating cleared.
generate_tokenize(t, stop_strs, maxTokens, n_tokens) ==
    /\ pc[t] = "G_tokenize"
    /\ IF n_tokens < 0
       THEN /\ g_is_generating' = FALSE
            /\ loc' = [loc EXCEPT ![t].stop_strs = stop_strs,
                                  ![t].maxTokens = maxTokens,
                                  ![t].n_tokens = n_tokens,
                                  ![t].ret = <<>>, ![t].why = "tokenize"]
            /\ pc' = [pc EXCEPT ![t] = "G_ret"]
       ELSE /\ loc' = [loc EXCEPT ![t].stop_strs = stop_strs,
                                  ![t].maxTokens = maxTokens,
                                  ![t].n_tokens = n_tokens]
            /\ pc' = [pc EXCEPT ![t] = "G_prompt"]
            /\ UNCHANGED g_is_generating
    /\ hist' = IF hist.on
               THEN [InitHist EXCEPT !.on = TRUE, !.stop_strs = stop_strs,
                                     !.maxTokens = maxTokens,
                                     !.n_tokens = n_tokens]
               ELSE hist
    /\ UNCHANGED <<kv, g_model, g_ctx, g_mutex, g_cancel_generation,
                   g_load_progress, backend>>

\* llama_memory_clear empties the cache; the prompt batch is built, passed
\* to llama_decode and freed.  A failed llama_decode returns with
\* g_is_generating cleared.  Otherwise the sampler chain is built and the loop
\* starts with n_cur = n_tokens.
generate_prompt(t, decoded) ==
    /\ pc[t] = "G_prompt"
    /\ LET batch == prompt_batch(loc[t].n_tokens)
       IN  /\ decoded => llama_decode_fits(0, batch)
           /\ kv' = IF decoded THEN batch.n_tokens ELSE 0
           /\ IF decoded
              THEN /\ loc' = [loc EXCEPT ![t].n_cur = loc[t].n_tokens,
                                         ![t].i = 0, ![t].result = <<>>,
                                         ![t].subm = Append(@, submitted(batch, TRUE)),
                                         ![t].batch_init = @ + 1,
                                         ![t].batch_free = @ + 1,
                                         ![t].smpl_init = @ + 1]
                   /\ pc' = [pc EXCEPT ![t] = "G_loop"]
                   /\ UNCHANGED g_is_generating
              ELSE /\ g_is_generating' = FALSE
                   /\ loc' = [loc EXCEPT ![t].ret = <<>>, ![t].why = "prompt",
                                         ![t].subm = Append(@, submitted(batch, FALSE)),
                                         ![t].batch_init = @ + 1,
                                         ![t].batch_free = @ + 1]
                   /\ pc' = [pc EXCEPT ![t] = "G_ret"]
    /\ UNCHANGED <<hist, g_model, g_ctx, g_mutex, g_cancel_generation,
                   g_load_progress, backend>>

\* The other outcome of generate_prompt for a prompt without tokens: the write before
\* the logits array (line 173) damages the allocator's record of the block,
\* and llama_batch_free (line 177 or 181) ends the process with every thread in it.
generate_prompt_abort(t) ==
    /\ pc[t] = "G_prompt"
    /\ out_of_bounds(prompt_batch(loc[t].n_tokens)) # {}
    /\ pc' = [u \in Threads |-> "aborted"]
    /\ UNCHANGED <<hist, kv, g_model, g_ctx, g_mutex, g_is_generating,
                   g_cancel_generation, g_load_progress, backend, loc>>

\* Mutation of generate_loop: the flag is read as set, and the loop goes on.
generate_loop_no_break(t) ==
    /\ pc[t] = "G_loop"
    /\ IF loc[t].i >= loc[t].maxTokens
       THEN /\ loc' = [loc EXCEPT ![t].why = "budget"]
            /\ pc' = [pc EXCEPT ![t] = "G_end"]
       ELSE /\ loc' = [loc EXCEPT ![t].seen_cancel =
                                      @ \/ g_cancel_generation]
            /\ pc' = [pc EXCEPT ![t] = "G_sample"]
    /\ UNCHANGED <<hist, globals, g_mutex>>

\* Mutation of generate_loop: the budget is tested after the step (do-while).
generate_loop_do_while(t) ==
    /\ pc[t] = "G_loop"
    /\ IF loc[t].i >= loc[t].maxTokens /\ loc[t].i > 0
       THEN /\ loc' = [loc EXCEPT ![t].why = "budget"]
            /\ pc' = [pc EXCEPT ![t] = "G_end"]
       ELSE IF g_cancel_generation
       THEN /\ loc' = [loc EXCEPT ![t].why = "cancel",
                                  ![t].seen_cancel = TRUE]
            /\ pc' = [pc EXCEPT ![t] = "G_end"]
       ELSE /\ pc' = [pc EXCEPT ![t] = "G_sample"]
            /\ UNCHANGED loc
    /\ UNCHANGED <<hist, globals, g_mutex>>

\* for (int i = 0; i < maxTokens; i++) { if (g_cancel_generation.load()) break;
generate_loop(t) ==
    /\ pc[t] = "G_loop"
    /\ IF loc[t].i >= loc[t].maxTokens
       THEN /\ loc' = [loc EXCEPT ![t].why = "budget"]
            /\ pc' = [pc EXCEPT ![t] = "G_end"]
       ELSE IF g_cancel_generation
       THEN /\ loc' = [loc EXCEPT ![t].why = "cancel",
                                  ![t].seen_cancel = TRUE]
            /\ pc' = [pc EXCEPT ![t] = "G_end"]
       ELSE /\ pc' = [pc EXCEPT ![t] = "G_sample"]
            /\ UNCHANGED loc
    /\ UNCHANGED <<hist, globals, g_mutex>>

\* The token is sampled; the end-of-generation token ends the loop.  Its
\* piece, when not empty, is appended to result and the stop strings are
\* tested.
generate_sample(t, new_token) ==
    /\ pc[t] = "G_sample"
    /\ IF llama_vocab_is_eog(new_token)
       THEN /\ loc' = [loc EXCEPT ![t].new_token = new_token,
                                  ![t].nsample = @ + 1, ![t].why = "eog"]
            /\ pc' = [pc EXCEPT ![t] = "G_end"]
       ELSE LET piece == llama_token_to_piece(new_token)
                chk == IF Len(piece) > 0
                       THEN generate_stop_check(loc[t].result \o piece,
                                                loc[t].stop_strs)
                       ELSE [result |-> loc[t].result, should_stop |-> FALSE]
            IN  /\ loc' = [loc EXCEPT ![t].new_token = new_token,
                                      ![t].nsample = @ + 1,
                                      ![t].piece = piece,
                                      ![t].result = chk.result,
                                      ![t].should_stop = chk.should_stop,
                                      ![t].why = IF chk.should_stop
                                                 THEN "stop" ELSE ""]
                /\ pc' = [pc EXCEPT ![t] = IF chk.should_stop
                                           THEN "G_end" ELSE "G_eval"]
    /\ hist' = IF hist.on THEN [hist EXCEPT !.toks = Append(@, new_token)]
               ELSE hist
    /\ UNCHANGED <<globals, g_mutex>>

\* Mutation of generate_eval: the batch of a failed llama_decode is not freed.
generate_eval_leak(t, decoded) ==
    /\ pc[t] = "G_eval"
    /\ LET single == single_batch(loc[t].new_token, loc[t].n_cur)
       IN  /\ decoded => llama_decode_fits(kv, single)
           /\ kv' = IF decoded THEN kv + single.n_tokens ELSE kv
           /\ IF decoded
              THEN /\ loc' = [loc EXCEPT ![t].neval = @ + 1,
                                         ![t].n_cur = @ + 1, ![t].i = @ + 1,
                                         ![t].subm = Append(@, submitted(single, TRUE)),
                                         ![t].batch_init = @ + 1,
                                         ![t].batch_free = @ + 1]
                   /\ pc' = [pc EXCEPT ![t] = "G_loop"]
              ELSE /\ loc' = [loc EXCEPT ![t].neval = @ + 1, ![t].why = "eval",
                                         ![t].subm = Append(@, submitted(single, FALSE)),
                                         ![t].batch_init = @ + 1]
                   /\ pc' = [pc EXCEPT ![t] = "G_end"]
    /\ UNCHANGED <<hist, g_model, g_ctx, g_mutex, g_is_generating,
                   g_cancel_generation, g_load_progress, backend>>

\* Mutation of generate_eval: a failed llama_decode skips to the next step
\* of the loop (continue for break).
generate_eval_continue(t, decoded) ==
    /\ pc[t] = "G_eval"
    /\ LET single == single_batch(loc[t].new_token, loc[t].n_cur)
       IN  /\ decoded => llama_decode_fits(kv, single)
           /\ kv' = IF decoded THEN kv + single.n_tokens ELSE kv
           /\ IF decoded
              THEN /\ loc' = [loc EXCEPT ![t].neval = @ + 1,
                                         ![t].n_cur = @ + 1, ![t].i = @ + 1,
                                         ![t].subm = Append(@, submitted(single, TRUE)),
                                         ![t].batch_init = @ + 1,
                                         ![t].batch_free = @ + 1]
                   /\ pc' = [pc EXCEPT ![t] = "G_loop"]
              ELSE /\ loc' = [loc EXCEPT ![t].neval = @ + 1, ![t].why = "eval",
                                         ![t].i = @ + 1,
                                         ![t].subm = Append(@, submitted(single, FALSE)),
                                         ![t].batch_init = @ + 1,
                                         ![t].batch_free = @ + 1]
                   /\ pc' = [pc EXCEPT ![t] = "G_loop"]
    /\ UNCHANGED <<hist, g_model, g_ctx, g_mutex, g_is_generating,
                   g_cancel_generation, g_load_progress, backend>>

\* The sampled token is passed to llama_decode as a batch of one at n_cur,
\* and the batch freed; a failed llama_decode ends the loop, a successful one
\* is followed by n_cur++ and the i++ of the loop.
generate_eval(t, decoded) ==
    /\ pc[t] = "G_eval"
    /\ LET single == single_batch(loc[t].new_token, loc[t].n_cur)
       IN  /\ decoded => llama_decode_fits(kv, single)
           /\ kv' = IF decoded THEN kv + single.n_tokens ELSE kv
           /\ IF decoded
              THEN /\ loc' = [loc EXCEPT ![t].neval = @ + 1,
                                         ![t].n_cur = @ + 1, ![t].i = @ + 1,
                                         ![t].subm = Append(@, submitted(single, TRUE)),
                                         ![t].batch_init = @ + 1,
                                         ![t].batch_free = @ + 1]
                   /\ pc' = [pc EXCEPT ![t] = "G_loop"]
              ELSE /\ loc' = [loc EXCEPT ![t].neval = @ + 1, ![t].why = "eval",
                                         ![t].subm = Append(@, submitted(single, FALSE)),
                                         ![t].batch_init = @ + 1,
                                         ![t].batch_free = @ + 1]
                   /\ pc' = [pc EXCEPT ![t] = "G_end"]
    /\ UNCHANGED <<hist, g_model, g_ctx, g_mutex, g_is_generating,
                   g_cancel_generation, g_load_progress, backend>>

\* llama_sampler_free(smpl); g_is_generating.store(false); return result
generate_end(t) ==
    /\ pc[t] = "G_end"
    /\ g_is_generating' = FALSE
    /\ loc' = [loc EXCEPT ![t].ret = loc[t].result, ![t].smpl_free = @ + 1]
    /\ pc' = [pc EXCEPT ![t] = "G_ret"]
    /\ hist' = IF hist.on
               THEN [hist EXCEPT !.done = TRUE, !.ret = loc[t].result,
                                 !.why = loc[t].why]
               ELSE hist
    /\ UNCHANGED <<kv, g_model, g_ctx, g_mutex, g_cancel_generation,
                   g_load_progress, backend>>

generate_return(t) == Return(t, "G_ret")

\* The steps of generate for requests with stop lists from Lists, to which
\* the sampler gives tokens from Toks.
generate_with(t, Lists, Toks) ==
    \/ generate_call(t)
    \/ generate_lock(t)
    \/ generate_check(t)
    \/ generate_begin(t)
    \/ generate_clear(t)
    \/ \E stop_strs \in Lists, maxTokens \in 0..MaxTokens,
          n_tokens \in -1..MaxPrompt :
          generate_tokenize(t, stop_strs, maxTokens, n_tokens)
    \/ \E decoded \in BOOLEAN : generate_prompt(t, decoded)
    \/ generate_prompt_abort(t)
    \/ generate_loop(t)
    \/ \E new_token \in Toks : generate_sample(t, new_token)
    \/ \E decoded \in BOOLEAN : generate_eval(t, decoded)
    \/ generate_end(t)
    \/ generate_return(t)

generate(t, Lists) == generate_with(t, Lists, Tokens)

\* -------------------------------------------------------- generateStreaming
\* Mutation of generateStreaming_stop_check: the windowed test of generate.
generateStreaming_stop_check_window(accumulated, stop_strs) ==
    \E k \in 1..Len(stop_strs) :
        generate_stop_found(accumulated, stop_strs[k])

\* The stop-string loop of generateStreaming over accumulated (the piece
\* appended): some stop string occurs in it.
generateStreaming_stop_check(accumulated, stop_strs) ==
    \E k \in 1..Len(stop_strs) :
        string_rfind(accumulated, stop_strs[k]) # npos

generateStreaming_call(t) == Invoke(t, "S_lock")

generateStreaming_lock(t) == lock_guard(t, "S_lock", "S_check")

\* if (!g_model || !g_ctx) return;
generateStreaming_check(t) ==
    /\ pc[t] = "S_check"
    /\ IF ~g_model \/ ~g_ctx
       THEN /\ loc' = [loc EXCEPT ![t].why = "nomodel"]
            /\ pc' = [pc EXCEPT ![t] = "S_ret"]
       ELSE /\ pc' = [pc EXCEPT ![t] = "S_begin"]
            /\ UNCHANGED loc
    /\ UNCHANGED <<hist, globals, g_mutex>>

\* g_is_generating.store(true)
generateStreaming_begin(t) ==
    /\ pc[t] = "S_begin"
    /\ g_is_generating' = TRUE
    /\ pc' = [pc EXCEPT ![t] = "S_clear"]
    /\ UNCHANGED <<kv, hist, g_model, g_ctx, g_mutex, g_cancel_generation,
                   g_load_progress, backend, loc>>

\* Mutation of generateStreaming_clear: the flag is left as it is.
generateStreaming_clear_skipped(t) ==
    /\ pc[t] = "S_clear"
    /\ loc' = [loc EXCEPT ![t].stale =
                              g_cancel_generation /\ ~loc[t].cancelled]
    /\ pc' = [pc EXCEPT ![t] = "S_tokenize"]
    /\ UNCHANGED <<kv, hist, g_model, g_ctx, g_mutex, g_is_generating,
                   g_cancel_generation, g_load_progress, backend>>

\* g_cancel_generation.store(false)
generateStreaming_clear(t) ==
    /\ pc[t] = "S_clear"
    /\ g_cancel_generation' = FALSE
    /\ loc' = [loc EXCEPT ![t].stale =
                              g_cancel_generation /\ ~loc[t].cancelled]
    /\ pc' = [pc EXCEPT ![t] = "S_tokenize"]
    /\ UNCHANGED <<kv, hist, g_model, g_ctx, g_mutex, g_is_generating,
                   g_load_progress, backend>>

\* Mutation of generateStreaming_tokenize: the return for a missing onToken
\* leaves g_is_generating set.
generateStreaming_tokenize_keeps_flag(t, stop_strs, maxTokens, onToken, n_tokens) ==
    /\ pc[t] = "S_tokenize"
    /\ IF ~onToken \/ n_tokens < 0
       THEN /\ g_is_generating' = ~onToken
            /\ loc' = [loc EXCEPT ![t].stop_strs = stop_strs,
                                  ![t].maxTokens = maxTokens,
                                  ![t].n_tokens = IF onToken THEN n_tokens
                                                  ELSE 0,
                                  ![t].why = IF ~onToken THEN "onToken"
                                             ELSE "tokenize"]
            /\ pc' = [pc EXCEPT ![t] = "S_ret"]
       ELSE /\ loc' = [loc EXCEPT ![t].stop_strs = stop_strs,
                                  ![t].maxTokens = maxTokens,
                                  ![t].n_tokens = n_tokens]
            /\ pc' = [pc EXCEPT ![t] = "S_prompt"]
            /\ UNCHANGED g_is_generating
    /\ UNCHANGED <<kv, hist, g_model, g_ctx, g_mutex, g_cancel_generation,
                   g_load_progress, backend>>

\* The stop strings are collected, onToken looked up and the prompt
\* tokenized; a callback without onToken, or a negative length, returns with
\* g_is_generating cleared.
generateStreaming_tokenize(t, stop_strs, maxTokens, onToken, n_tokens) ==
    /\ pc[t] = "S_tokenize"
    /\ IF ~onToken \/ n_tokens < 0
       THEN /\ g_is_generating' = FALSE
            /\ loc' = [loc EXCEPT ![t].stop_strs = stop_strs,
                                  ![t].maxTokens = maxTokens,
                                  ![t].n_tokens = IF onToken THEN n_tokens
                                                  ELSE 0,
                                  ![t].why = IF ~onToken THEN "onToken"
                                             ELSE "tokenize"]
            /\ pc' = [pc EXCEPT ![t] = "S_ret"]
       ELSE /\ loc' = [loc EXCEPT ![t].stop_strs = stop_strs,
                                  ![t].maxTokens = maxTokens,
                                  ![t].n_tokens = n_tokens]
            /\ pc' = [pc EXCEPT ![t] = "S_prompt"]
            /\ UNCHANGED g_is_generating
    /\ UNCHANGED <<kv, hist, g_model, g_ctx, g_mutex, g_cancel_generation,
                   g_load_progress, backend>>

\* Mutation of generateStreaming_prompt: the failure return leaves
\* g_is_generating set.
generateStreaming_prompt_keeps_flag(t, decoded) ==
    /\ pc[t] = "S_prompt"
    /\ LET batch == prompt_batch(loc[t].n_tokens)
       IN  /\ decoded => llama_decode_fits(0, batch)
           /\ kv' = IF decoded THEN batch.n_tokens ELSE 0
           /\ IF decoded
              THEN /\ loc' = [loc EXCEPT ![t].n_cur = loc[t].n_tokens,
                                         ![t].i = 0, ![t].result = <<>>,
                                         ![t].subm = Append(@, submitted(batch, TRUE)),
                                         ![t].batch_init = @ + 1,
                                         ![t].batch_free = @ + 1,
                                         ![t].smpl_init = @ + 1]
                   /\ pc' = [pc EXCEPT ![t] = "S_loop"]
                   /\ UNCHANGED g_is_generating
              ELSE /\ UNCHANGED g_is_generating
                   /\ loc' = [loc EXCEPT ![t].why = "prompt",
                                         ![t].subm = Append(@, submitted(batch, FALSE)),
                                         ![t].batch_init = @ + 1,
                                         ![t].batch_free = @ + 1]
                   /\ pc' = [pc EXCEPT ![t] = "S_ret"]
    /\ UNCHANGED <<hist, g_model, g_ctx, g_mutex, g_cancel_generation,
                   g_load_progress, backend>>

\* llama_memory_clear empties the cache; the prompt batch is built, passed
\* to llama_decode and freed.  A failed llama_decode returns with
\* g_is_generating cleared.  Otherwise the sampler chain is built and the loop
\* starts with n_cur = n_tokens.
generateStreaming_prompt(t, decoded) ==
    /\ pc[t] = "S_prompt"
    /\ LET batch == prompt_batch(loc[t].n_tokens)
       IN  /\ decoded => llama_decode_fits(0, batch)
           /\ kv' = IF decoded THEN batch.n_tokens ELSE 0
           /\ IF decoded
              THEN /\ loc' = [loc EXCEPT ![t].n_cur = loc[t].n_tokens,
                                         ![t].i = 0, ![t].result = <<>>,
                                         ![t].subm = Append(@, submitted(batch, TRUE)),
                                         ![t].batch_init = @ + 1,
                                         ![t].batch_free = @ + 1,
                                         ![t].smpl_init = @ + 1]
                   /\ pc' = [pc EXCEPT ![t] = "S_loop"]
                   /\ UNCHANGED g_is_generating
              ELSE /\ g_is_generating' = FALSE
                   /\ loc' = [loc EXCEPT ![t].why = "prompt",
                                         ![t].subm = Append(@, submitted(batch, FALSE)),
                                         ![t].batch_init = @ + 1,
                                         ![t].batch_free = @ + 1]
                   /\ pc' = [pc EXCEPT ![t] = "S_ret"]
    /\ UNCHANGED <<hist, g_model, g_ctx, g_mutex, g_cancel_generation,
                   g_load_progress, backend>>

\* The other outcome of generateStreaming_prompt for a prompt without tokens: the write before
\* the logits array (line 317) damages the allocator's record of the block,
\* and llama_batch_free (line 322 or 326) ends the process with every thread in it.
generateStreaming_prompt_abort(t) ==
    /\ pc[t] = "S_prompt"
    /\ out_of_bounds(prompt_batch(loc[t].n_tokens)) # {}
    /\ pc' = [u \in Threads |-> "aborted"]
    /\ UNCHANGED <<hist, kv, g_model, g_ctx, g_mutex, g_is_generating,
                   g_cancel_generation, g_load_progress, backend, loc>>

\* Mutation of generateStreaming_loop: the loop runs while i <= maxTokens.
generateStreaming_loop_off_by_one(t) ==
    /\ pc[t] = "S_loop"
    /\ IF loc[t].i > loc[t].maxTokens
       THEN /\ loc' = [loc EXCEPT ![t].why = "budget"]
            /\ pc' = [pc EXCEPT ![t] = "S_end"]
       ELSE IF g_cancel_generation
       THEN /\ loc' = [loc EXCEPT ![t].why = "cancel",
                                  ![t].seen_cancel = TRUE]
            /\ pc' = [pc EXCEPT ![t] = "S_end"]
       ELSE /\ pc' = [pc EXCEPT ![t] = "S_sample"]
            /\ UNCHANGED loc
    /\ UNCHANGED <<hist, globals, g_mutex>>

\* for (int i = 0; i < maxTokens; i++) { if (g_cancel_generation.load()) break;
generateStreaming_loop(t) ==
    /\ pc[t] = "S_loop"
    /\ IF loc[t].i >= loc[t].maxTokens
       THEN /\ loc' = [loc EXCEPT ![t].why = "budget"]
            /\ pc' = [pc EXCEPT ![t] = "S_end"]
       ELSE IF g_cancel_generation
       THEN /\ loc' = [loc EXCEPT ![t].why = "cancel",
                                  ![t].seen_cancel = TRUE]
            /\ pc' = [pc EXCEPT ![t] = "S_end"]
       ELSE /\ pc' = [pc EXCEPT ![t] = "S_sample"]
            /\ UNCHANGED loc
    /\ UNCHANGED <<hist, globals, g_mutex>>

\* Mutation of generateStreaming_sample: the end-of-generation token is
\* evaluated before the loop ends.
generateStreaming_sample_eog_evaluated(t, new_token) ==
    /\ pc[t] = "S_sample"
    /\ IF llama_vocab_is_eog(new_token)
       THEN /\ loc' = [loc EXCEPT ![t].new_token = new_token,
                                  ![t].nsample = @ + 1, ![t].why = "eog"]
            /\ pc' = [pc EXCEPT ![t] = "S_eval"]
       ELSE LET piece == llama_token_to_piece(new_token)
                accumulated == loc[t].result \o piece
                should_stop == /\ Len(piece) > 0
                               /\ generateStreaming_stop_check(
                                      accumulated, loc[t].stop_strs)
            IN  /\ loc' = [loc EXCEPT ![t].new_token = new_token,
                                      ![t].nsample = @ + 1,
                                      ![t].piece = IF should_stop THEN <<>>
                                                   ELSE piece,
                                      ![t].result = accumulated,
                                      ![t].should_stop = should_stop]
                /\ pc' = [pc EXCEPT ![t] = IF Len(piece) > 0
                                           THEN "S_send" ELSE "S_eval"]
    /\ UNCHANGED <<hist, globals, g_mutex>>

\* Mutation of generateStreaming_sample: a piece that matched no stop string
\* is not passed to onToken.
generateStreaming_sample_skip_send(t, new_token) ==
    /\ pc[t] = "S_sample"
    /\ IF llama_vocab_is_eog(new_token)
       THEN /\ loc' = [loc EXCEPT ![t].new_token = new_token,
                                  ![t].nsample = @ + 1, ![t].why = "eog"]
            /\ pc' = [pc EXCEPT ![t] = "S_end"]
       ELSE LET piece == llama_token_to_piece(new_token)
                accumulated == loc[t].result \o piece
                should_stop == /\ Len(piece) > 0
                               /\ generateStreaming_stop_check(
                                      accumulated, loc[t].stop_strs)
            IN  /\ loc' = [loc EXCEPT ![t].new_token = new_token,
                                      ![t].nsample = @ + 1,
                                      ![t].piece = IF should_stop THEN <<>>
                                                   ELSE piece,
                                      ![t].result = accumulated,
                                      ![t].should_stop = should_stop]
                /\ pc' = [pc EXCEPT ![t] = IF should_stop
                                           THEN "S_send" ELSE "S_eval"]
    /\ UNCHANGED <<hist, globals, g_mutex>>

\* The token is sampled; the end-of-generation token ends the loop.  Its
\* piece, when not empty, is appended to accumulated (result here) and the
\* stop strings are tested: a match empties the piece.
generateStreaming_sample(t, new_token) ==
    /\ pc[t] = "S_sample"
    /\ IF llama_vocab_is_eog(new_token)
       THEN /\ loc' = [loc EXCEPT ![t].new_token = new_token,
                                  ![t].nsample = @ + 1, ![t].why = "eog"]
            /\ pc' = [pc EXCEPT ![t] = "S_end"]
       ELSE LET piece == llama_token_to_piece(new_token)
                accumulated == loc[t].result \o piece
                should_stop == /\ Len(piece) > 0
                               /\ generateStreaming_stop_check(
                                      accumulated, loc[t].stop_strs)
            IN  /\ loc' = [loc EXCEPT ![t].new_token = new_token,
                                      ![t].nsample = @ + 1,
                                      ![t].piece = IF should_stop THEN <<>>
                                                   ELSE piece,
                                      ![t].result = accumulated,
                                      ![t].should_stop = should_stop]
                /\ pc' = [pc EXCEPT ![t] = IF Len(piece) > 0
                                           THEN "S_send" ELSE "S_eval"]
    /\ UNCHANGED <<hist, globals, g_mutex>>

\* Mutation of generateStreaming_send: after a Java exception the loop goes on.
generateStreaming_send_no_break(t, raised) ==
    /\ pc[t] = "S_send"
    /\ IF Len(loc[t].piece) > 0
       THEN /\ loc' = [loc EXCEPT ![t].sink = Append(@, loc[t].piece),
                                  ![t].why = IF raised THEN "sink" ELSE ""]
            /\ pc' = [pc EXCEPT ![t] = "S_eval"]
       ELSE /\ ~raised
            /\ loc' = [loc EXCEPT ![t].why = IF loc[t].should_stop
                                             THEN "stop" ELSE ""]
            /\ pc' = [pc EXCEPT ![t] = IF loc[t].should_stop
                                       THEN "S_end" ELSE "S_eval"]
    /\ UNCHANGED <<hist, globals, g_mutex>>

\* A piece that is not empty is passed to onToken, on this thread and under
\* the lock; a Java exception ends the loop.  Then a stop match ends it.
generateStreaming_send(t, raised) ==
    /\ pc[t] = "S_send"
    /\ IF Len(loc[t].piece) > 0
       THEN /\ loc' = [loc EXCEPT ![t].sink = Append(@, loc[t].piece),
                                  ![t].why = IF raised THEN "sink" ELSE ""]
            /\ pc' = [pc EXCEPT ![t] = IF raised THEN "S_end" ELSE "S_eval"]
       ELSE /\ ~raised
            /\ loc' = [loc EXCEPT ![t].why = IF loc[t].should_stop
                                             THEN "stop" ELSE ""]
            /\ pc' = [pc EXCEPT ![t] = IF loc[t].should_stop
                                       THEN "S_end" ELSE "S_eval"]
    /\ UNCHANGED <<hist, globals, g_mutex>>

\* Mutation of generateStreaming_eval: n_cur++ also after a failed llama_decode.
generateStreaming_eval_counts_failure(t, decoded) ==
    /\ pc[t] = "S_eval"
    /\ LET single == single_batch(loc[t].new_token, loc[t].n_cur)
       IN  /\ decoded => llama_decode_fits(kv, single)
           /\ kv' = IF decoded THEN kv + single.n_tokens ELSE kv
           /\ IF decoded
              THEN /\ loc' = [loc EXCEPT ![t].neval = @ + 1,
                                         ![t].n_cur = @ + 1, ![t].i = @ + 1,
                                         ![t].subm = Append(@, submitted(single, TRUE)),
                                         ![t].batch_init = @ + 1,
                                         ![t].batch_free = @ + 1]
                   /\ pc' = [pc EXCEPT ![t] = "S_loop"]
              ELSE /\ loc' = [loc EXCEPT ![t].neval = @ + 1, ![t].why = "eval",
                                         ![t].n_cur = @ + 1,
                                         ![t].subm = Append(@, submitted(single, FALSE)),
                                         ![t].batch_init = @ + 1,
                                         ![t].batch_free = @ + 1]
                   /\ pc' = [pc EXCEPT ![t] = "S_end"]
    /\ UNCHANGED <<hist, g_model, g_ctx, g_mutex, g_is_generating,
                   g_cancel_generation, g_load_progress, backend>>

\* The sampled token is passed to llama_decode as a batch of one at n_cur,
\* and the batch freed; a failed llama_decode ends the loop, a successful one
\* is followed by n_cur++ and the i++ of the loop.
generateStreaming_eval(t, decoded) ==
    /\ pc[t] = "S_eval"
    /\ LET single == single_batch(loc[t].new_token, loc[t].n_cur)
       IN  /\ decoded => llama_decode_fits(kv, single)
           /\ kv' = IF decoded THEN kv + single.n_tokens ELSE kv
           /\ IF decoded
              THEN /\ loc' = [loc EXCEPT ![t].neval = @ + 1,
                                         ![t].n_cur = @ + 1, ![t].i = @ + 1,
                                         ![t].subm = Append(@, submitted(single, TRUE)),
                                         ![t].batch_init = @ + 1,
                                         ![t].batch_free = @ + 1]
                   /\ pc' = [pc EXCEPT ![t] = "S_loop"]
              ELSE /\ loc' = [loc EXCEPT ![t].neval = @ + 1, ![t].why = "eval",
                                         ![t].subm = Append(@, submitted(single, FALSE)),
                                         ![t].batch_init = @ + 1,
                                         ![t].batch_free = @ + 1]
                   /\ pc' = [pc EXCEPT ![t] = "S_end"]
    /\ UNCHANGED <<hist, g_model, g_ctx, g_mutex, g_is_generating,
                   g_cancel_generation, g_load_progress, backend>>

\* llama_sampler_free(smpl); g_is_generating.store(false)
generateStreaming_end(t) ==
    /\ pc[t] = "S_end"
    /\ g_is_generating' = FALSE
    /\ loc' = [loc EXCEPT ![t].smpl_free = @ + 1]
    /\ pc' = [pc EXCEPT ![t] = "S_ret"]
    /\ UNCHANGED <<kv, hist, g_model, g_ctx, g_mutex, g_cancel_generation,
                   g_load_progress, backend>>

generateStreaming_return(t) == Return(t, "S_ret")

\* The steps of generateStreaming for requests with stop lists from Lists,
\* to which the sampler gives tokens from Toks.
generateStreaming_with(t, Lists, Toks) ==
    \/ generateStreaming_call(t)
    \/ generateStreaming_lock(t)
    \/ generateStreaming_check(t)
    \/ generateStreaming_begin(t)
    \/ generateStreaming_clear(t)
    \/ \E stop_strs \in Lists, maxTokens \in 0..MaxTokens,
          onToken \in BOOLEAN, n_tokens \in -1..MaxPrompt :
          generateStreaming_tokenize(t, stop_strs, maxTokens, onToken,
                                     n_tokens)
    \/ \E decoded \in BOOLEAN : generateStreaming_prompt(t, decoded)
    \/ generateStreaming_prompt_abort(t)
    \/ generateStreaming_loop(t)
    \/ \E new_token \in Toks : generateStreaming_sample(t, new_token)
    \/ \E raised \in BOOLEAN : generateStreaming_send(t, raised)
    \/ \E decoded \in BOOLEAN : generateStreaming_eval(t, decoded)
    \/ generateStreaming_end(t)
    \/ generateStreaming_return(t)

generateStreaming(t, Lists) == generateStreaming_with(t, Lists, Tokens)

\* ------------------------------------------------------------ specification
\* Host threads call the entry points concurrently.
Next ==
    \E t \in Threads :
        \/ loadModel(t)
        \/ unloadModel(t)
        \/ generate(t, FewStopLists)
        \/ generateStreaming(t, FewStopLists)
        \/ cancelGeneration(t)

Spec == Init /\ [][Next]_vars

\* One host thread calls the entry points, with every stop list.
NextSeq ==
    \/ loadModel(Main)
    \/ unloadModel(Main)
    \/ generate(Main, StopLists)
    \/ generateStreaming(Main, StopLists)
    \/ cancelGeneration(Main)

SpecSeq == Init /\ [][NextSeq]_vars

\* Host threads call the entry points concurrently, with requests that
\* configure no stop string, to which the sampler gives the end-of-generation
\* token, a token without text or a token with text.
NoStopLists == { <<>> }
LiveTokens ==
    {TOKEN_EOG} \cup
    { t \in 1..Len(Vocab) : llama_token_to_piece(t) \in { <<>>, <<"a">> } }

NextLive ==
    \E t \in Threads :
        \/ loadModel(t)
        \/ unloadModel(t)
        \/ generate_with(t, NoStopLists, LiveTokens)
        \/ generateStreaming_with(t, NoStopLists, LiveTokens)
        \/ cancelGeneration(t)

\* The steps of the call a thread is in: taking the lock it waits for, and
\* the steps of the body.  The runtime calls and the onToken callback return,
\* so a thread inside a body goes on (weak fairness); a thread blocked on
\* g_mutex gets it if the mutex is free again and again (strong fairness:
\* std::mutex does not order its waiters).  Hosts need not call at all.
LockWait == { "L_lock", "U_lock", "G_lock", "S_lock" }

Proceed(t) ==
    /\ pc[t] \notin {"idle"} \cup LockWait
    /\ \/ loadModel(t)
       \/ unloadModel(t)
       \/ generate_with(t, NoStopLists, LiveTokens)
       \/ generateStreaming_with(t, NoStopLists, LiveTokens)

Acquire(t) ==
    /\ pc[t] \in LockWait
    /\ \/ loadModel_lock(t)
       \/ unloadModel_lock(t)
       \/ generate_lock(t)
       \/ generateStreaming_lock(t)

SpecLive ==
    /\ Init /\ [][NextLive]_vars
    /\ \A t \in Threads : WF_vars(Proceed(t)) /\ SF_vars(Acquire(t))

\* One host thread loads a model and calls generate, which is recorded, and
\* then generateStreaming on the same model with the recorded request, to
\* which the sampler gives the recorded tokens.
generateStreaming_replay(t) ==
    \/ generateStreaming_call(t)
    \/ generateStreaming_lock(t)
    \/ generateStreaming_check(t)
    \/ generateStreaming_begin(t)
    \/ generateStreaming_clear(t)
    \/ /\ hist.done
       /\ generateStreaming_tokenize(t, hist.stop_strs, hist.maxTokens, TRUE,
                                     hist.n_tokens)
    \/ \E decoded \in BOOLEAN : generateStreaming_prompt(t, decoded)
    \/ generateStreaming_prompt_abort(t)
    \/ generateStreaming_loop(t)
    \/ /\ loc[t].nsample < Len(hist.toks)
       /\ generateStreaming_sample(t, hist.toks[loc[t].nsample + 1])
    \/ \E raised \in BOOLEAN : generateStreaming_send(t, raised)
    \/ \E decoded \in BOOLEAN : generateStreaming_eval(t, decoded)
    \/ generateStreaming_end(t)
    \/ generateStreaming_return(t)

InitEq ==
    /\ g_model = FALSE
    /\ g_ctx = FALSE
    /\ g_mutex = NoThread
    /\ g_is_generating = FALSE
    /\ g_cancel_generation = FALSE
    /\ g_load_progress = 0
    /\ backend = FALSE
    /\ kv = 0
    /\ pc = [t \in Threads |-> "idle"]
    /\ loc = [t \in Threads |-> InitLoc]
    /\ hist = [InitHist EXCEPT !.on = TRUE]

NextEq ==
    \/ ~hist.done /\ loadModel(Main)
    \/ (~hist.done \/ pc[Main] = "G_ret") /\ generate(Main, StopLists)
    \/ generateStreaming_replay(Main)

SpecEq == InitEq /\ [][NextEq]_vars

\* ------------------------------------------------------------------ claims
\* The program counters of a call that holds the lock, and of a generation
\* that has passed its model check and not yet left its loop.
Waiting == { "idle", "L_lock", "U_lock", "G_lock", "S_lock" }
Alive == \A t \in Threads : pc[t] # "aborted"
InBody(t) == pc[t] \notin Waiting \cup {"aborted"}
Generating ==
    { "G_begin", "G_clear", "G_tokenize", "G_prompt", "G_loop", "G_sample",
      "G_eval", "G_end",
      "S_begin", "S_clear", "S_tokenize", "S_prompt", "S_loop", "S_sample",
      "S_send", "S_eval", "S_end" }
GenReturn == { "G_ret", "S_ret" }

RECURSIVE Evaluated(_)
\* The tokens of the batches of a request that llama_decode accepted.
Evaluated(subm) ==
    IF subm = <<>> THEN 0
    ELSE (IF Head(subm).decoded THEN Len(Head(subm).pos) ELSE 0)
         + Evaluated(Tail(subm))

\* A generation call is in its loop or past it.
InLoop ==
    { "G_loop", "G_sample", "G_eval", "G_end",
      "S_loop", "S_sample", "S_send", "S_eval", "S_end" }

RECURSIVE Flatten(_)
\* The concatenation of a sequence of fragments.
Flatten(fragments) ==
    IF fragments = <<>> THEN <<>>
    ELSE Head(fragments) \o Flatten(Tail(fragments))

Contains(s, sub) == \E p \in 0..Len(s) : occurs_at(s, sub, p)
IsPrefix(pre, s) == Len(pre) <= Len(s) /\ SubSeq(s, 1, Len(pre)) = pre
HasSuffix(s, sub) == Len(sub) <= Len(s) /\ occurs_at(s, sub, Len(s) - Len(sub))

\* The piece of the token a generation sampled last.
LastPiece(t) ==
    IF loc[t].nsample = 0 \/ llama_vocab_is_eog(loc[t].new_token) THEN <<>>
    ELSE llama_token_to_piece(loc[t].new_token)

\* C1: a thread is inside the body of loadModel, unloadModel, generate or
\* generateStreaming (the sink callback included) only while it holds
\* g_mutex, so at most one thread is inside a body; and while a generation
\* is between its model check and its end, the model and the context it
\* checked are still there.
C1_Serialized ==
    /\ \A t \in Threads : InBody(t) => g_mutex = t
    /\ \A t, u \in Threads : InBody(t) /\ InBody(u) => t = u
    /\ \A t \in Threads : pc[t] \in Generating => g_model /\ g_ctx

C1_Witness ==
    \E t, u \in Threads :
        /\ pc[t] = "S_send"
        /\ Len(loc[t].piece) > 0
        /\ pc[u] \in {"L_lock", "U_lock"}

\* C2: when loadModel is about to return false, isModelLoaded() is false and
\* getLoadProgress() is 0.
C2_FailedLoadResets ==
    \A t \in Threads :
        pc[t] = "L_ret" /\ ~loc[t].ok =>
            ~isModelLoaded /\ getLoadProgress = 0

\* C3: a generation call that cancelGeneration() followed, after the call
\* was invoked and before its first step, samples no token.
C3_EarlyCancelNoStep ==
    \A t \in Threads : loc[t].early_cancel => loc[t].nsample = 0

\* C4: the text generate returns for a request whose stop strings are not
\* empty does not end in one of them.
C4_NoStopSuffix ==
    \A t \in Threads :
        /\ pc[t] = "G_ret"
        /\ \A k \in 1..Len(loc[t].stop_strs) : loc[t].stop_strs[k] # <<>>
        => \A k \in 1..Len(loc[t].stop_strs) :
               ~HasSuffix(loc[t].ret, loc[t].stop_strs[k])

\* C5: in generateStreaming, once the accumulated text contains a configured
\* stop string, the fragment that completed it has not been passed to the
\* sink and nothing is passed after it (the fragments passed, followed by
\* the piece of the last token, are the accumulated text); and the
\* concatenation of the fragments passed contains no configured stop string
\* (the empty stop string, which every text contains, stops all delivery).
C5_SinkNeverGetsStop ==
    \A t \in Threads :
        pc[t] \in {"S_send", "S_eval", "S_loop", "S_sample", "S_end", "S_ret"} =>
            /\ generateStreaming_stop_check(loc[t].result, loc[t].stop_strs)
                   => Flatten(loc[t].sink) \o LastPiece(t) = loc[t].result
            /\ \A k \in 1..Len(loc[t].stop_strs) :
                   loc[t].stop_strs[k] # <<>> =>
                       ~Contains(Flatten(loc[t].sink), loc[t].stop_strs[k])

C5_Witness ==
    \E t \in Threads :
        /\ pc[t] = "S_ret"
        /\ loc[t].why = "stop"
        /\ loc[t].sink # <<>>
        /\ Len(loc[t].result) > Len(Flatten(loc[t].sink))

\* The exit paths of a generation that neither was cancelled nor failed.
Clean == { "budget", "eog", "stop" }
\* generateStreaming is about to return from replaying the recorded generate
\* call, and neither call was cancelled or failed.
Replayed ==
    /\ pc[Main] = "S_ret"
    /\ hist.done
    /\ hist.why \in Clean
    /\ loc[Main].why \in Clean
    /\ loc[Main].stop_strs = hist.stop_strs
    /\ loc[Main].maxTokens = hist.maxTokens
\* The configured stop strings that occur in the text generateStreaming
\* accumulated.
StopsHit ==
    { loc[Main].stop_strs[k] : k \in
        { j \in 1..Len(loc[Main].stop_strs) :
            Contains(loc[Main].result, loc[Main].stop_strs[j]) } }

\* C6 (as claimed): for the same request, with stop strings that are not
\* empty, and the same sampled tokens, the concatenation of the fragments
\* generateStreaming delivers is the text generate returns.
C6_StreamingEqualsBuffered ==
    /\ Replayed
    /\ \A k \in 1..Len(hist.stop_strs) : hist.stop_strs[k] # <<>>
    => Flatten(loc[Main].sink) = hist.ret

\* C6 (amended): they are equal when no configured stop string occurs in the
\* accumulated text, and when the one configured stop string that occurs in
\* it is exactly the last decoded fragment and text precedes that fragment.
C6_EqualOnWholeFragmentStop ==
    Replayed =>
        /\ StopsHit = {} => Flatten(loc[Main].sink) = hist.ret
        /\ /\ StopsHit = {LastPiece(Main)}
           /\ Len(loc[Main].result) > Len(LastPiece(Main))
           => /\ Flatten(loc[Main].sink) = hist.ret
              /\ hist.ret \o LastPiece(Main) = loc[Main].result

C6_Witness ==
    /\ Replayed
    /\ StopsHit = {LastPiece(Main)}
    /\ Len(loc[Main].result) > Len(LastPiece(Main))
    /\ hist.stop_strs = << <<"!">> >>
    /\ loc[Main].sink = << <<"a">> >>
    /\ hist.ret = <<"a">>

\* C7: once the poll of a step has read the cancel flag as set, the call
\* samples, evaluates and delivers nothing more and its accumulated text
\* stays as it is; generate returns that text.
C7_NoStepAfterCancelSeen ==
    /\ [](\A t \in Threads :
            pc[t] = "G_ret" /\ loc[t].seen_cancel =>
                loc[t].ret = loc[t].result /\ loc[t].why = "cancel")
    /\ [][\A t \in Threads :
            loc[t].seen_cancel /\ pc'[t] # "idle" =>
                /\ loc'[t].nsample = loc[t].nsample
                /\ loc'[t].neval = loc[t].neval
                /\ loc'[t].sink = loc[t].sink
                /\ loc'[t].result = loc[t].result]_vars

C7_Witness ==
    \E t \in Threads :
        /\ pc[t] = "G_ret"
        /\ loc[t].seen_cancel
        /\ loc[t].ret # <<>>
        /\ loc[t].nsample < loc[t].maxTokens

\* C8: when loadModel is about to return true, isModelLoaded() is true and
\* getLoadProgress() is 1.0.
C8_LoadedAfterSuccess ==
    \A t \in Threads :
        pc[t] = "L_ret" /\ loc[t].ok =>
            isModelLoaded /\ getLoadProgress = PROGRESS_ONE

C8_Witness ==
    \E t \in Threads : pc[t] = "L_ret" /\ loc[t].ok /\ loc[t].prior

\* C9: when unloadModel is about to return, isModelLoaded() is false and
\* getLoadProgress() is 0; and no step of an unloadModel that runs with
\* nothing loaded and the progress at 0 changes either.
C9_UnloadIdempotent ==
    /\ [](\A t \in Threads :
            pc[t] = "U_ret" => ~isModelLoaded /\ getLoadProgress = 0)
    /\ [][\A t \in Threads :
            /\ pc[t] \in {"U_free_ctx", "U_free_model", "U_finish", "U_ret"}
            /\ ~g_model /\ ~g_ctx /\ g_load_progress = 0
            => ~g_model' /\ ~g_ctx' /\ g_load_progress' = 0]_vars

C9_Witness ==
    \E t \in Threads :
        pc[t] = "U_ret" /\ ~loc[t].prior /\ ~backend /\ loc[t].why = "unloaded"

\* C10: a generation call that found no model, got a negative length from
\* the tokenizer or failed to evaluate its prompt returns empty text, has
\* delivered nothing to the sink, and has sampled and evaluated no token.
C10_NoOutputOnEarlyFailure ==
    \A t \in Threads :
        /\ pc[t] \in GenReturn
        /\ ~loc[t].prior \/ loc[t].n_tokens < 0 \/ loc[t].why = "prompt"
        => /\ loc[t].ret = <<>>
           /\ loc[t].sink = <<>>
           /\ loc[t].nsample = 0
           /\ loc[t].neval = 0

C10_Witness ==
    \E t, u \in Threads :
        /\ pc[t] = "G_ret" /\ loc[t].why = "prompt"
        /\ pc[u] = "S_lock"

\* C11: a generation request with maxTokens = 0 samples no token, evaluates
\* nothing but its prompt batch, accumulates and returns empty text and
\* delivers no fragment.
C11_ZeroBudget ==
    \A t \in Threads :
        pc[t] \in Generating \cup GenReturn /\ loc[t].maxTokens = 0 =>
            /\ loc[t].nsample = 0
            /\ loc[t].neval = 0
            /\ Len(loc[t].subm) <= 1
            /\ loc[t].result = <<>>
            /\ loc[t].ret = <<>>
            /\ loc[t].sink = <<>>

C11_Witness ==
    /\ \E t \in Threads :
          /\ pc[t] = "G_ret" /\ loc[t].why = "budget"
          /\ loc[t].maxTokens = 0 /\ loc[t].n_tokens > 0
          /\ Len(loc[t].subm) = 1 /\ loc[t].subm[1].decoded
    /\ \E t \in Threads :
          /\ pc[t] = "S_lock"

\* The exit paths of a generation call that failed.
Failures == { "onToken", "tokenize", "prompt", "eval", "sink" }

\* C12: when a generation call that failed is about to return, the model is
\* loaded as it was when the call took the lock, getLoadProgress() is what it
\* was then and isGenerating() is false; and its return frees the lock and
\* changes none of them, so that the next generation call finds the model.
C12_FailureLeavesStore ==
    /\ [](\A t \in Threads :
            pc[t] \in GenReturn /\ loc[t].why \in Failures =>
                /\ loc[t].prior /\ isModelLoaded
                /\ getLoadProgress = loc[t].progress0
                /\ ~isGenerating
                /\ g_mutex = t)
    /\ [][\A t \in Threads :
            pc[t] \in GenReturn /\ loc[t].why \in Failures /\ pc'[t] = "idle" =>
                /\ g_mutex' = NoThread
                /\ isModelLoaded'
                /\ getLoadProgress' = loc[t].progress0
                /\ ~isGenerating']_vars

C12_Witness ==
    \E t, u \in Threads :
        /\ pc[t] = "S_ret" /\ loc[t].why = "sink"
        /\ Len(loc[t].sink) = 2
        /\ pc[u] = "G_lock"

\* C13: once onToken has raised, generateStreaming is at the end of its
\* loop: the token whose fragment was rejected is not evaluated (every token
\* sampled before it was), and until the call returns nothing more is
\* sampled, evaluated or passed to the sink.
C13_SinkFailureEndsLoop ==
    /\ [](\A t \in Threads :
            loc[t].why = "sink" =>
                /\ pc[t] \in {"S_end", "S_ret"}
                /\ loc[t].neval = loc[t].nsample - 1)
    /\ [][\A t \in Threads :
            loc[t].why = "sink" /\ pc'[t] # "idle" =>
                /\ loc'[t].nsample = loc[t].nsample
                /\ loc'[t].neval = loc[t].neval
                /\ loc'[t].subm = loc[t].subm
                /\ loc'[t].sink = loc[t].sink]_vars

C13_Witness ==
    \E t \in Threads :
        /\ pc[t] = "S_ret" /\ loc[t].why = "sink"
        /\ loc[t].nsample < loc[t].maxTokens
        /\ Len(loc[t].subm) = loc[t].nsample

\* C14: a generation call never frees more batches or sampler chains than it
\* has allocated, allocates at most one sampler chain, and when it is about
\* to return, on whatever exit path, it has freed as many of each as it
\* allocated; and when loadModel is about to return false neither a model nor
\* a context is held.
C14_FreedOnEveryPath ==
    \A t \in Threads :
        /\ loc[t].batch_free <= loc[t].batch_init
        /\ loc[t].smpl_free <= loc[t].smpl_init
        /\ loc[t].smpl_init <= 1
        /\ pc[t] \in GenReturn =>
               /\ loc[t].batch_free = loc[t].batch_init
               /\ loc[t].smpl_free = loc[t].smpl_init
        /\ pc[t] = "L_ret" /\ ~loc[t].ok => ~g_model /\ ~g_ctx

C14_Witness ==
    \E t \in Threads :
        /\ pc[t] = "G_ret" /\ loc[t].why = "eval"
        /\ loc[t].batch_init = 2
        /\ loc[t].smpl_init = 1

\* C15: in generate, with stop strings that are not empty, the step that
\* appends a non-empty fragment ends the generation exactly when the text
\* accumulated then contains a stop string, and the text is then cut at the
\* start of the match of the first stop string, in the order supplied, that
\* it contains; otherwise the text is kept whole and the token evaluated.
C15_StopOrderAndCut ==
    [][\A t \in Threads :
        /\ pc[t] = "G_sample" /\ pc'[t] # "G_sample"
        /\ ~llama_vocab_is_eog(loc'[t].new_token)
        /\ Len(llama_token_to_piece(loc'[t].new_token)) > 0
        /\ \A k \in 1..Len(loc[t].stop_strs) : loc[t].stop_strs[k] # <<>>
        => LET text == loc[t].result \o llama_token_to_piece(loc'[t].new_token)
               hit == { k \in 1..Len(loc[t].stop_strs) :
                          Contains(text, loc[t].stop_strs[k]) }
           IN  IF hit = {}
               THEN pc'[t] = "G_eval" /\ loc'[t].result = text
               ELSE /\ pc'[t] = "G_end"
                    /\ loc'[t].why = "stop"
                    /\ loc'[t].result =
                           string_substr(text,
                               string_find(text, loc[t].stop_strs[Min(hit)], 0))
      ]_vars

C17_CacheResetAtStart ==
    \A t \in Threads :
        \/ pc[t] \in {"G_prompt", "S_prompt"} \cup InLoop
        \/ pc[t] \in GenReturn /\ loc[t].why # "nomodel"
        => kv = Evaluated(loc[t].subm)

\* C18: the first batch a request passes to llama_decode holds its n_tokens
\* prompt tokens at positions 0..n_tokens-1 in order, with logits asked for
\* the last entry only; the batch after k-1 others (k >= 2) holds one token,
\* at position n_tokens + k - 2, with logits asked; every entry is in
\* sequence 0 alone.  So the positions of a request are consecutive from 0.
C18_BatchPositions ==
    \A t \in Threads :
        \A k \in 1..Len(loc[t].subm) :
            LET e == loc[t].subm[k]
                N == loc[t].n_tokens
            IN  /\ Len(e.pos) = (IF k = 1 THEN N ELSE 1)
                /\ \A j \in 1..Len(e.pos) :
                       /\ e.pos[j] = (IF k = 1 THEN j - 1 ELSE N + k - 2)
                       /\ e.logits[j] = (IF k = 1 /\ j < N THEN 0 ELSE 1)
                       /\ e.n_seq_id[j] = 1
                       /\ e.seq_id[j] = <<0>>

C18_Witness ==
    \E t \in Threads :
        /\ Len(loc[t].subm) = 3
        /\ loc[t].subm[1].pos = <<0>>
        /\ loc[t].subm[2].pos = <<1>>
        /\ loc[t].subm[3].pos = <<2>>

\* C19: isGenerating() is true (in a process that runs) only while a thread
\* that holds g_mutex is in a generation call that passed its model check; a generation call that is
\* about to return, on whatever exit path (the rejection for a missing model
\* included), has it false.
C19_GeneratingOnlyUnderLock ==
    /\ Alive /\ isGenerating =>
           \E t \in Threads : g_mutex = t /\ pc[t] \in Generating
    /\ \A t \in Threads : pc[t] \in GenReturn => ~isGenerating

C19_Witness ==
    \E t, u \in Threads :
        /\ pc[t] = "S_ret" /\ loc[t].why = "onToken"
        /\ loc[t].prior /\ ~isGenerating
        /\ pc[u] = "L_lock"

C20_Witness ==
    \E t, u \in Threads :
        /\ pc[t] = "S_send"
        /\ loc[t].nsample = loc[t].maxTokens
        /\ loc[t].maxTokens = MaxTokens
        /\ pc[u] = "U_lock"

\* C21: the step in which llama_decode fails for a sampled token ends the
\* loop, leaving n_cur, the accumulated text and the fragments delivered as
\* they are; from then on the call is at its end, samples and evaluates
\* nothing more, its text still ends in the fragment of that token, and
\* generate returns that text.
C21_EvalFailureEndsLoop ==
    /\ [](\A t \in Threads :
            loc[t].why = "eval" =>
                /\ pc[t] \in {"G_end", "G_ret", "S_end", "S_ret"}
                /\ HasSuffix(loc[t].result, LastPiece(t))
                /\ loc[t].n_cur = loc[t].n_tokens + loc[t].neval - 1
                /\ pc[t] = "G_ret" => loc[t].ret = loc[t].result)
    /\ [][\A t \in Threads :
            loc'[t].why = "eval" /\ pc'[t] # "idle" =>
                /\ loc'[t].n_cur = loc[t].n_cur
                /\ loc'[t].result = loc[t].result
                /\ loc'[t].sink = loc[t].sink
                /\ loc'[t].nsample = loc[t].nsample
                /\ loc[t].why = "eval" => loc'[t].neval = loc[t].neval]_vars

C21_Witness ==
    \E t \in Threads :
        /\ pc[t] = "G_ret" /\ loc[t].why = "eval"
        /\ loc[t].neval = 2
        /\ loc[t].nsample = 2
        /\ Len(loc[t].ret) > Len(LastPiece(t))
        /\ LastPiece(t) # <<>>

\* C22: the step that samples the end-of-generation token ends the loop and
\* changes neither the accumulated text, the fragments delivered, the batches
\* evaluated nor n_cur; from then on the call is at its end and none of them
\* changes.
C22_EogEndsLoop ==
    /\ [](\A t \in Threads :
            loc[t].why = "eog" =>
                /\ pc[t] \in {"G_end", "G_ret", "S_end", "S_ret"}
                /\ llama_vocab_is_eog(loc[t].new_token)
                /\ loc[t].neval = loc[t].nsample - 1
                /\ loc[t].n_cur = loc[t].n_tokens + loc[t].neval)
    /\ [][\A t \in Threads :
            /\ loc'[t].nsample = loc[t].nsample + 1
            /\ llama_vocab_is_eog(loc'[t].new_token)
            => /\ loc'[t].why = "eog"
               /\ pc'[t] \in {"G_end", "S_end"}
               /\ loc'[t].result = loc[t].result
               /\ loc'[t].sink = loc[t].sink
               /\ loc'[t].subm = loc[t].subm
               /\ loc'[t].n_cur = loc[t].n_cur]_vars
    /\ [][\A t \in Threads :
            loc[t].why = "eog" /\ pc'[t] # "idle" =>
                /\ loc'[t].result = loc[t].result
                /\ loc'[t].sink = loc[t].sink
                /\ loc'[t].subm = loc[t].subm
                /\ loc'[t].nsample = loc[t].nsample
                /\ loc'[t].n_cur = loc[t].n_cur]_vars

C22_Witness ==
    \E t \in Threads :
        /\ pc[t] = "S_ret" /\ loc[t].why = "eog"
        /\ loc[t].nsample = 2
        /\ loc[t].nsample <= loc[t].maxTokens
        /\ Len(loc[t].sink) = 1

\* C23: a context is held only while a model is held; a step that frees the
\* model finds no context, a step that creates a context finds the model, and
\* a step that takes the progress back to 0 finds neither; isModelLoaded() is
\* true exactly when both are held.
C23_ContextOnlyWithModel ==
    /\ [](/\ g_ctx => g_model
          /\ isModelLoaded <=> (g_model /\ g_ctx))
    /\ [][/\ g_model /\ ~g_model' => ~g_ctx
          /\ ~g_ctx /\ g_ctx' => g_model
          /\ g_load_progress # 0 /\ g_load_progress' = 0 =>
                 ~g_model /\ ~g_ctx]_vars

C23_Witness ==
    \E t, u \in Threads :
        /\ pc[t] = "L_free_model" /\ g_model /\ ~g_ctx
        /\ g_load_progress = PROGRESS_ONE
        /\ pc[u] = "U_lock"

\* C24: in generateStreaming the fragments passed to onToken, concatenated,
\* are a prefix of the accumulated text, and are the whole of it whenever a
\* token is about to be evaluated or the next one sampled; the sink changes
\* only in the delivery step, by the piece of the token sampled last being
\* appended to it.
C24_SinkInDecodeOrder ==
    /\ [](\A t \in Threads :
            /\ IsPrefix(Flatten(loc[t].sink), loc[t].result)
            /\ pc[t] \in {"S_eval", "S_loop", "S_sample"} =>
                   Flatten(loc[t].sink) = loc[t].result)
    /\ [][\A t \in Threads :
            loc'[t].sink # loc[t].sink /\ pc'[t] # "idle" =>
                /\ pc[t] = "S_send"
                /\ LastPiece(t) # <<>>
                /\ loc'[t].sink = Append(loc[t].sink, LastPiece(t))]_vars

C24_Witness ==
    \E t \in Threads :
        /\ pc[t] = "S_eval"
        /\ Len(loc[t].sink) = 2
        /\ loc[t].sink[1] # loc[t].sink[2]
        /\ loc[t].stop_strs # <<>>

\* C25: every write to the arrays of a batch that generate or
\* generateStreaming passes to llama_decode uses an index of the batch, from
\* 0 up to its capacity, whatever count of prompt tokens llama_tokenize
\* returned.
C25_BatchWritesInBounds ==
    \A t \in Threads :
        \A k \in 1..Len(loc[t].subm) :
            \A w \in loc[t].subm[k].writes :
                0 <= w /\ w < loc[t].subm[k].size

\* C26: a cancelGeneration() that ran before a generation call was invoked
\* never ends that call: a call polls the flag as set, or takes the exit of
\* a cancellation, only if cancelGeneration ran after its invocation; the
\* step at line 133 / 270 leaves the flag cleared; and no other step of a
\* call that holds or awaits the lock (loadModel, unloadModel, a generation
\* rejected for a missing model) changes the flag.
C26_StaleCancelIgnored ==
    /\ [](\A t \in Threads :
            loc[t].seen_cancel \/ loc[t].why = "cancel" =>
                loc[t].cancelled)
    /\ [][\A t \in Threads :
            pc'[t] # pc[t] =>
                IF pc[t] \in {"G_clear", "S_clear"}
                THEN ~g_cancel_generation'
                ELSE g_cancel_generation' = g_cancel_generation]_vars

C26_Witness ==
    \E t, u \in Threads :
        /\ pc[t] = "S_ret" /\ loc[t].why = "budget"
        /\ loc[t].stale /\ ~loc[t].cancelled
        /\ loc[t].nsample = MaxTokens
        /\ pc[u] = "L_lock"
====
